---- MODULE Spec2Model ----
(***************************************************************************)
(* Concept-dataset loaders of src/datasets/loaders.py:                     *)
(*   ECGDataset            - label-equality concepts over heartbeat labels *)
(*   MutagenicityDataset   - substructure detectors over molecule graphs   *)
(*   ModelNet40Dataset     - download / preprocess / formatting pipeline   *)
(* Each dataset has its own specification; the variables of the other      *)
(* datasets are pinned to an idle value in it.                             *)
(***************************************************************************)
EXTENDS Integers, Sequences, FiniteSets, TLC

VARIABLES
    y,               \* ECGDataset.y: the label of every sample (1-based index)
    binarize_label,  \* ECGDataset.binarize_label
    ecg_call,        \* arguments of the generate_concept_dataset call in progress
    ecg_res,         \* what that call produced (an exception or the pair X, C)
    mol,             \* the molecule graph handed to a concept detector
    det_call,        \* the detector call in progress
    det_res,         \* "True", "False" or the exception the detector raised
    dataset,         \* MutagenicityDataset.dataset: the partition, in order
    mut_call,        \* arguments of the generate_concept_dataset call in progress
    mut_res,         \* what that call produced
    pc,              \* where the ModelNet40 process is: __init__, a stage, or at rest
    caller,          \* who entered preprocess: "init" or a direct call of the method
    dir,             \* data_dir exists
    rawN,            \* how many entries of the archive are extracted under data_dir
    malformed,       \* the meshes whose OFF text read_off rejects
    npyRoot,         \* data_dir/ModelNet_40_npy exists
    npyDirs,         \* the <<class, split>> folders present under it
    npyFiles,        \* the files under it: path -> "ok" or "corrupt" (unloadable)
    arrays,          \* the aggregate arrays saved beside it by formatting
    h5,              \* data_dir/ModelNet40_cloud.h5 exists
    tasks,           \* the worker tasks of the fan-out: entry -> state
    ran,             \* history: the stages the running construction entered
    tested,          \* history: what each key test of that construction found
    partial,         \* history: the stage the previous construction was killed in
    fs0              \* history: the files as the running construction found them

ecgVars == <<y, binarize_label, ecg_call, ecg_res>>
detVars == <<mol, det_call, det_res>>
mutVars == <<dataset, mut_call, mut_res>>

fsVars == <<dir, rawN, npyRoot, npyDirs, npyFiles, arrays, h5>>
mnVars == <<pc, caller, dir, rawN, malformed, npyRoot, npyDirs, npyFiles, arrays, h5,
            tasks, ran, tested, partial, fs0>>

vars == <<y, binarize_label, ecg_call, ecg_res, mol, det_call, det_res,
          dataset, mut_call, mut_res,
          pc, caller, dir, rawN, malformed, npyRoot, npyDirs, npyFiles, arrays, h5,
          tasks, ran, tested, partial, fs0>>

(***************************************************************************)
(* Bounds                                                                  *)
(***************************************************************************)
NSamples == 4        \* samples in the ECG split
MaxAtoms == 4        \* nodes of a molecule graph handed to a detector
MaxBonds == 2        \* edges of such a molecule graph
MaxValence == 2      \* bond valences are 0..MaxValence
MaxGraphs == 3       \* graphs in the Mutagenicity partition
NClasses == 2        \* class folders of the ModelNet40 archive

\* largest concept_set_size requested: the largest both partitions can supply
MaxSize == NSamples \div 2

(***************************************************************************)
(* Helpers                                                                 *)
(***************************************************************************)
Min(a, b) == IF a <= b THEN a ELSE b

Range(s) == {s[i] : i \in DOMAIN s}

\* injective sequences of length k over the set S
Arrangements(S, k) ==
    {s \in [1..k -> S] : \A i, j \in 1..k : s[i] = s[j] => i = j}

NoCall == [op |-> "none"]

Untested == [download |-> "untested", preprocess |-> "untested", formatting |-> "untested"]
NoArrays == [tr_cloud |-> "none", tr_label |-> "none",
             test_cloud |-> "none", test_label |-> "none"]

\* the ModelNet40 variables when no ModelNet40Dataset is in play
MNIdle ==
    /\ pc = "idle" /\ caller = "none"
    /\ dir = FALSE /\ rawN = 0 /\ malformed = {}
    /\ npyRoot = FALSE /\ npyDirs = {} /\ npyFiles = <<>>
    /\ arrays = NoArrays /\ h5 = FALSE
    /\ tasks = <<>> /\ ran = {} /\ tested = Untested /\ partial = "none"
    /\ fs0 = <<>>

(***************************************************************************)
(* ECGDataset                                                              *)
(***************************************************************************)
ClassLabels == 0..4
ConceptIds == 0..3

\* __init__, lines 59-63: y = np.where(y >= 1, 1, 0) when binarize_label
Binarize(labels, binarize) ==
    IF binarize THEN [i \in DOMAIN labels |-> IF labels[i] >= 1 THEN 1 ELSE 0]
    ELSE labels

\* torch.nonzero(mask).flatten(): the indices where the mask holds
positive_idx(concept_id) == {i \in DOMAIN y : y[i] = concept_id + 1}
negative_idx(concept_id) == {i \in DOMAIN y : y[i] # concept_id + 1}

\* next(iter(DataLoader(self, batch_size, sampler=SubsetRandomSampler(idx)))):
\* the first batch of a random permutation of idx, drop_last = False
FirstBatch(idx, batch_size) == Arrangements(idx, Min(batch_size, Cardinality(idx)))

\* torch.concatenate((torch.ones(size), torch.zeros(size)), 0)
ConceptLabelsSwapped(size) == [i \in 1..(2 * size) |-> IF i <= size THEN 0 ELSE 1]
ConceptLabels(size) == [i \in 1..(2 * size) |-> IF i <= size THEN 1 ELSE 0]

\* torch.randperm(n): a permutation of the n positions
randperm(n) == Arrangements(1..n, n)

\* X[rand_perm], C[rand_perm]
Permuted(X, C, rand_perm) ==
    [status |-> "ok",
     X |-> [i \in DOMAIN rand_perm |-> X[rand_perm[i]]],
     C |-> [i \in DOMAIN rand_perm |-> C[rand_perm[i]]]]

ECGRaise(e) == [status |-> e, X |-> <<>>, C |-> <<>>]

\* line 87: assert not self.binarize_label
PreconditionDropped == TRUE
PreconditionHolds == ~binarize_label

\* the outcomes of generate_concept_dataset(concept_id, concept_set_size)
ECGOutcomes(concept_id, size) ==
    IF ~PreconditionHolds THEN {ECGRaise("AssertionError")}               \* line 87
    ELSE IF size <= 0 THEN {ECGRaise("ValueError")}                       \* line 91, BatchSampler
    ELSE IF positive_idx(concept_id) = {} \/ negative_idx(concept_id) = {}
         THEN {ECGRaise("StopIteration")}                                 \* lines 93-94
    ELSE UNION {{Permuted(b[1] \o b[2], ConceptLabels(size), rand_perm) :
                   rand_perm \in randperm(Len(b[1]) + Len(b[2]))} :
                b \in FirstBatch(positive_idx(concept_id), size)
                      \X FirstBatch(negative_idx(concept_id), size)}   \* lines 93-98

ECGIdle ==
    /\ y = <<>>
    /\ binarize_label = FALSE
    /\ ecg_call = NoCall
    /\ ecg_res = ECGRaise("none")

ECGInit ==
    /\ binarize_label \in BOOLEAN
    /\ \E labels \in [1..NSamples -> ClassLabels] : y = Binarize(labels, binarize_label)
    /\ ecg_call = NoCall
    /\ ecg_res = ECGRaise("none")

generate_concept_dataset_ecg ==
    /\ ecg_call = NoCall
    /\ \E concept_id \in ConceptIds, size \in 0..MaxSize :
         /\ ecg_call' = [op |-> "generate", concept_id |-> concept_id, size |-> size]
         /\ ecg_res' \in ECGOutcomes(concept_id, size)
    /\ UNCHANGED <<y, binarize_label, detVars, mutVars, mnVars>>

\* the caller drops the derived view; nothing is cached in the object
ecg_release ==
    /\ ecg_call # NoCall
    /\ ecg_call' = NoCall
    /\ ecg_res' = ECGRaise("none")
    /\ UNCHANGED <<y, binarize_label, detVars, mutVars, mnVars>>

ECGNext == generate_concept_dataset_ecg \/ ecg_release

(***************************************************************************)
(* MutagenicityDataset: molecule graphs and the four concept detectors     *)
(*                                                                         *)
(* A molecule is a networkx graph: atoms[i] is node i's 'name' (nodes are   *)
(* iterated in insertion order 1..n), bonds maps each edge <<u, v>>, u < v, *)
(* to its 'valence'.  directed = FALSE is an nx.Graph: every edge is held   *)
(* once, and Graph.edges reports it from the node met first.  directed =    *)
(* TRUE is the nx.DiGraph of a molecule whose every bond is stored as the   *)
(* two arcs u -> v and v -> u.                                              *)
(***************************************************************************)
AtomNames == {"C", "N", "O", "Cl"}
Valences == 0..MaxValence

Pairs(n) == {p \in (1..n) \X (1..n) : p[1] < p[2]}

BondMaps(n) ==
    UNION {[S -> Valences] : S \in {T \in SUBSET Pairs(n) : Cardinality(T) <= MaxBonds}}

Molecules ==
    UNION {[atoms : [1..n -> AtomNames], bonds : BondMaps(n), directed : BOOLEAN] :
             n \in 1..MaxAtoms}

nodes(molecule) == 1..Len(molecule.atoms)

\* nx.get_node_attributes(molecule, 'name')
get_node_attributes(molecule) == molecule.atoms

\* nx.get_edge_attributes(molecule, 'valence'): a dict keyed by molecule.edges
get_edge_attributes(molecule) ==
    LET stored == DOMAIN molecule.bonds
        flipped == {<<k[2], k[1]>> : k \in stored}
        keys == IF molecule.directed THEN stored \cup flipped ELSE stored
    IN  [k \in keys |-> IF k \in stored THEN molecule.bonds[k]
                        ELSE molecule.bonds[<<k[2], k[1]>>]]

\* molecule.adj[node1], nx.neighbors(molecule, node1)
neighbors(molecule, node1) ==
    {node2 \in nodes(molecule) :
        <<node1, node2>> \in DOMAIN molecule.bonds \/ <<node2, node1>> \in DOMAIN molecule.bonds}

\* is_nitroso / is_azo_type, the loop over the neighbours of node1 (lines 142-144,
\* 161-163): "True" on a hit, "KeyError" when valences[node1, node2] has no
\* such key, "next" when the loop ends
RECURSIVE double_bond_scan(_, _, _, _, _)
double_bond_scan(molecule, valences, other, node1, node2) ==
    IF node2 > Len(molecule.atoms) THEN "next"
    ELSE IF node2 \in neighbors(molecule, node1) /\ molecule.atoms[node2] = other
         THEN IF <<node1, node2>> \notin DOMAIN valences THEN "KeyError"
              ELSE IF valences[<<node1, node2>>] = 2 THEN "True"
              ELSE double_bond_scan(molecule, valences, other, node1, node2 + 1)
    ELSE double_bond_scan(molecule, valences, other, node1, node2 + 1)

RECURSIVE double_bond_nodes(_, _, _, _)
double_bond_nodes(molecule, valences, other, node1) ==
    IF node1 > Len(molecule.atoms) THEN "False"
    ELSE IF molecule.atoms[node1] = "N"
         THEN LET r == double_bond_scan(molecule, valences, other, node1, 1)
              IN  IF r = "next"
                  THEN double_bond_nodes(molecule, valences, other, node1 + 1)
                  ELSE r
    ELSE double_bond_nodes(molecule, valences, other, node1 + 1)

\* lines 136-145
is_nitroso(molecule) ==
    double_bond_nodes(molecule, get_edge_attributes(molecule), "O", 1)

\* lines 147-153
is_aliphatic_halide(molecule) ==
    IF \E node1 \in nodes(molecule) : molecule.atoms[node1] \in {"Cl", "Br", "I"}
    THEN "True" ELSE "False"

\* lines 155-164
is_azo_type(molecule) ==
    double_bond_nodes(molecule, get_edge_attributes(molecule), "N", 1)

\* is_nitro_type, the loop over the neighbours of node1 (lines 174-180)
RECURSIVE nitro_scan(_, _, _, _, _, _)
nitro_scan(molecule, valences, node1, node2, has_single_NO, has_double_NO) ==
    IF node2 > Len(molecule.atoms)
    THEN IF has_single_NO /\ has_double_NO THEN "True" ELSE "next"   \* line 182
    ELSE IF node2 \in neighbors(molecule, node1) /\ molecule.atoms[node2] = "O"
         THEN IF <<node1, node2>> \notin DOMAIN valences THEN "KeyError"
              ELSE nitro_scan(molecule, valences, node1, node2 + 1,
                              has_single_NO \/ valences[<<node1, node2>>] = 1,
                              has_double_NO \/ valences[<<node1, node2>>] = 2)
    ELSE nitro_scan(molecule, valences, node1, node2 + 1, has_single_NO, has_double_NO)

RECURSIVE nitro_nodes(_, _, _)
nitro_nodes(molecule, valences, node1) ==
    IF node1 > Len(molecule.atoms) THEN "False"
    ELSE IF molecule.atoms[node1] = "N"
         THEN LET r == nitro_scan(molecule, valences, node1, 1, FALSE, FALSE)
              IN  IF r = "next" THEN nitro_nodes(molecule, valences, node1 + 1) ELSE r
    ELSE nitro_nodes(molecule, valences, node1 + 1)

\* lines 166-184
is_nitro_type(molecule) == nitro_nodes(molecule, get_edge_attributes(molecule), 1)

\* lines 133-134 and the dictionary of lines 119-120
concept_names == <<"Nitroso", "Aliphatic Halide", "Azo Type", "Nitro Type">>

concept_detector(name, molecule) ==
    CASE name = "Nitroso" -> is_nitroso(molecule)
      [] name = "Aliphatic Halide" -> is_aliphatic_halide(molecule)
      [] name = "Azo Type" -> is_azo_type(molecule)
      [] name = "Nitro Type" -> is_nitro_type(molecule)

DetIdle ==
    /\ mol = [atoms |-> <<"C">>, bonds |-> <<>>, directed |-> TRUE]
    /\ det_call = NoCall
    /\ det_res = "none"

DetInit ==
    /\ mol \in Molecules
    /\ det_call = NoCall
    /\ det_res = "none"

call_is_nitroso ==
    /\ det_call = NoCall
    /\ det_call' = [op |-> "is_nitroso"]
    /\ det_res' = is_nitroso(mol)
    /\ UNCHANGED <<mol, ecgVars, mutVars, mnVars>>

call_is_aliphatic_halide ==
    /\ det_call = NoCall
    /\ det_call' = [op |-> "is_aliphatic_halide"]
    /\ det_res' = is_aliphatic_halide(mol)
    /\ UNCHANGED <<mol, ecgVars, mutVars, mnVars>>

call_is_azo_type ==
    /\ det_call = NoCall
    /\ det_call' = [op |-> "is_azo_type"]
    /\ det_res' = is_azo_type(mol)
    /\ UNCHANGED <<mol, ecgVars, mutVars, mnVars>>

call_is_nitro_type ==
    /\ det_call = NoCall
    /\ det_call' = [op |-> "is_nitro_type"]
    /\ det_res' = is_nitro_type(mol)
    /\ UNCHANGED <<mol, ecgVars, mutVars, mnVars>>

\* the detectors are pure: the caller takes the answer and the graph is as before
det_return ==
    /\ det_call # NoCall
    /\ det_call' = NoCall
    /\ det_res' = "none"
    /\ UNCHANGED <<mol, ecgVars, mutVars, mnVars>>

DetNext ==
    \/ call_is_nitroso
    \/ call_is_aliphatic_halide
    \/ call_is_azo_type
    \/ call_is_nitro_type
    \/ det_return

(***************************************************************************)
(* MutagenicityDataset.generate_concept_dataset                            *)
(***************************************************************************)
\* the benchmark graphs the partition is drawn from: atoms and bonds of each
Graph(atoms, bonds) == [atoms |-> atoms, bonds |-> bonds]

GraphLib ==
    {Graph(<<"C", "N", "O">>, (<<1, 2>> :> 1) @@ (<<2, 3>> :> 2)),     \* C-N=O
     Graph(<<"O", "N", "O">>, (<<1, 2>> :> 1) @@ (<<2, 3>> :> 2)),     \* O-N=O
     Graph(<<"O", "N", "O">>, (<<1, 2>> :> 1) @@ (<<2, 3>> :> 1)),     \* O-N-O
     Graph(<<"N", "N">>, (<<1, 2>> :> 2)),                             \* N=N
     Graph(<<"C", "Cl">>, (<<1, 2>> :> 1)),                            \* C-Cl
     Graph(<<"C", "C">>, (<<1, 2>> :> 0))}                             \* C:C

\* utils.misc.to_molecule: the graph's bonds are kept as pairs of opposite arcs
to_molecule(graph) == [atoms |-> graph.atoms, bonds |-> graph.bonds, directed |-> TRUE]

\* lines 121-126: the detector's answer for every graph, in partition order
concept_mask(concept_id) ==
    [i \in DOMAIN dataset |->
        concept_detector(concept_names[concept_id + 1], to_molecule(dataset[i]))]

\* self.dataset[mask]: the positions where the mask has this value, in order
Selected(mask, value) ==
    SelectSeq([i \in DOMAIN mask |-> i], LAMBDA i : mask[i] = value)

\* s[:concept_set_size] for a size >= 0
TruncateLast(s, size) == SubSeq(s, Len(s) - Min(size, Len(s)) + 1, Len(s))
Truncate(s, size) == SubSeq(s, 1, Min(size, Len(s)))

MutRaise(e) == [status |-> e, concept_set |-> <<>>, C |-> <<>>]

\* lines 118-131
MutOutcome(concept_id, size) ==
    LET mask == concept_mask(concept_id)
        positive_set == Truncate(Selected(mask, "True"), size)
        negative_set == Truncate(Selected(mask, "False"), size)
    IN  IF \E i \in DOMAIN mask : mask[i] = "KeyError" THEN MutRaise("KeyError")
        ELSE [status |-> "ok",
              concept_set |-> positive_set \o negative_set,
              C |-> [i \in 1..Len(positive_set) |-> 1] \o [i \in 1..Len(negative_set) |-> 0]]

MutIdle ==
    /\ dataset = <<>>
    /\ mut_call = NoCall
    /\ mut_res = MutRaise("none")

\* the partition is a slice of the shuffled benchmark: any graphs in any order
MutInit ==
    /\ \E n \in 1..MaxGraphs : dataset \in [1..n -> GraphLib]
    /\ mut_call = NoCall
    /\ mut_res = MutRaise("none")

generate_concept_dataset_mut ==
    /\ mut_call = NoCall
    /\ \E concept_id \in ConceptIds, size \in 0..MaxSize :
         /\ mut_call' = [op |-> "generate", concept_id |-> concept_id, size |-> size]
         /\ mut_res' = MutOutcome(concept_id, size)
    /\ UNCHANGED <<dataset, ecgVars, detVars, mnVars>>

mut_release ==
    /\ mut_call # NoCall
    /\ mut_call' = NoCall
    /\ mut_res' = MutRaise("none")
    /\ UNCHANGED <<dataset, ecgVars, detVars, mnVars>>

MutNext == generate_concept_dataset_mut \/ mut_release

InitMut == MutInit /\ ECGIdle /\ DetIdle /\ MNIdle

SpecMut == InitMut /\ [][MutNext]_vars

InitDetect == DetInit /\ ECGIdle /\ MutIdle /\ MNIdle

SpecDetect == InitDetect /\ [][DetNext]_vars

InitECG == ECGInit /\ DetIdle /\ MutIdle /\ MNIdle

SpecECG == InitECG /\ [][ECGNext]_vars

(***************************************************************************)
(* ModelNet40Dataset: the files                                            *)
(*                                                                         *)
(* A class folder is named by its rank in alphabetical order; class 1 is   *)
(* "bed", whose first training mesh preprocess reads before anything else. *)
(* File names are sequences of characters, so that file[:-4], Path.suffix  *)
(* and endswith are computed as Python computes them.                      *)
(***************************************************************************)
Classes == 1..NClasses
Splits == {"train", "test"}

a_off == <<"a", ".", "o", "f", "f">>
b_off == <<"b", ".", "o", "f", "f">>
a_txt == <<"a", ".", "t", "x", "t">>
dot_off == <<".", "o", "f", "f">>
dot_npy == <<".", "n", "p", "y">>

Entry(cat, split, name) == [cat |-> cat, split |-> split, name |-> name]

\* the archive, in extraction order: ModelNet40/<class>/<train|test>/<file>
ClassEntries(c) ==
    IF c = 1
    THEN <<Entry(1, "train", a_off), Entry(1, "train", b_off), Entry(1, "train", a_txt),
           Entry(1, "test", a_off)>>
    ELSE <<Entry(c, "train", a_off), Entry(c, "test", a_off)>>

RECURSIVE ArchiveFrom(_)
ArchiveFrom(c) == IF c > NClasses THEN <<>> ELSE ClassEntries(c) \o ArchiveFrom(c + 1)

RawOrder == ArchiveFrom(1)
Meshes == {e \in Range(RawOrder) : e.name \in {a_off, b_off}}
ProbeMesh == Entry(1, "train", a_off)         \* path / "bed/train/bed_0001.off"

Extracted(n) == {RawOrder[i] : i \in 1..n}
rawFiles == Extracted(rawN)
rawClasses == {e.cat : e \in rawFiles}                       \* line 227, 312, 338
rawFolderExists(c, split) == \E e \in rawFiles : e.cat = c /\ e.split = split
rawListing(c, split) == {e \in rawFiles : e.cat = c /\ e.split = split}

\* pathlib's Path.suffix: from the last dot on, '' when there is none, when it
\* leads the name or when it ends it
Suffix(name) ==
    LET dots == {i \in DOMAIN name : name[i] = "."}
        last == CHOOSE i \in dots : \A j \in dots : j <= i
    IN  IF dots = {} THEN <<>>
        ELSE IF last = 1 \/ last = Len(name) THEN <<>>
        ELSE SubSeq(name, last, Len(name))

\* str.endswith
EndsWith(name, tail) ==
    /\ Len(name) >= Len(tail)
    /\ SubSeq(name, Len(name) - Len(tail) + 1, Len(name)) = tail

\* line 295: fname = save_adr / f'{file[:-4]}.npy'
fnameShared(e) == Entry(e.cat, e.split, <<"o", "u", "t">> \o dot_npy)
fname(e) == Entry(e.cat, e.split, SubSeq(e.name, 1, Len(e.name) - 4) \o dot_npy)

npyClasses == {d[1] : d \in npyDirs}                         \* lines 369, 380, 407
npyListing(c, split) == {f \in DOMAIN npyFiles : f.cat = c /\ f.split = split}

FS == [dir |-> dir, rawN |-> rawN, npyRoot |-> npyRoot, npyDirs |-> npyDirs,
       npyFiles |-> npyFiles, arrays |-> arrays, h5 |-> h5]

(***************************************************************************)
(* ModelNet40Dataset.__init__ (lines 189-205) and download (213-218)       *)
(***************************************************************************)
otherVars == <<ecgVars, detVars, mutVars>>

AtRest == pc \in {"idle", "done", "failed"}

\* the three key tests of __init__
AlwaysRun(key) == TRUE
KeyAbsent(key) == ~key

\* the stage the construction is in leaves its output unfinished behind its key
NpyCompleteIn(dirs, files) ==
    /\ \A c \in rawClasses, split \in Splits : <<c, split>> \in dirs
    /\ \A e \in Meshes \cap rawFiles :
          fname(e) \in DOMAIN files /\ files[fname(e)] = "ok"

NpyComplete == NpyCompleteIn(npyDirs, npyFiles)

Unfinished ==
    IF caller # "init" THEN "none"
    ELSE IF pc = "download" /\ rawN < Len(RawOrder) THEN "download"
    ELSE IF pc \in {"pre_probe", "pre_list_train", "batch_train", "pre_list_test",
                    "batch_test"} /\ npyRoot /\ ~NpyComplete THEN "preprocess"
    ELSE "none"

\* an exception leaves __init__ (no object) or a direct call (the object stays)
Raised == IF caller = "init" THEN "failed" ELSE "done"

construct ==
    /\ AtRest
    /\ caller' = "init"
    /\ fs0' = FS
    /\ partial' = IF pc = "done" THEN "none" ELSE partial
    /\ tasks' = <<>>
    /\ IF KeyAbsent(dir)                                       \* line 199
       THEN /\ dir' = TRUE                                     \* line 200
            /\ ran' = {"download"}
            /\ pc' = "download"
       ELSE /\ dir' = dir
            /\ ran' = {}
            /\ pc' = "test_npy"
    /\ tested' = [Untested EXCEPT !.download = IF dir THEN "present" ELSE "absent"]
    /\ UNCHANGED <<rawN, malformed, npyRoot, npyDirs, npyFiles, arrays, h5, otherVars>>

\* the archive is unzipped entry by entry
download_extract ==
    /\ pc = "download"
    /\ rawN < Len(RawOrder)
    /\ rawN' = rawN + 1
    /\ UNCHANGED <<pc, caller, dir, malformed, npyRoot, npyDirs, npyFiles, arrays, h5,
                   tasks, ran, tested, partial, fs0, otherVars>>

download_return ==
    /\ pc = "download"
    /\ rawN = Len(RawOrder)
    /\ pc' = "test_npy"
    /\ UNCHANGED <<caller, dir, rawN, malformed, npyRoot, npyDirs, npyFiles, arrays, h5,
                   tasks, ran, tested, partial, fs0, otherVars>>

\* missing credentials, an unreachable API, a broken transfer
download_fail ==
    /\ pc = "download"
    /\ rawN < Len(RawOrder)
    /\ pc' = "failed"
    /\ partial' = Unfinished
    /\ UNCHANGED <<caller, dir, rawN, malformed, npyRoot, npyDirs, npyFiles, arrays, h5,
                   tasks, ran, tested, fs0, otherVars>>

test_npy ==
    /\ pc = "test_npy"
    /\ IF KeyAbsent(npyRoot)                                   \* line 202
       THEN /\ ran' = ran \cup {"preprocess"}
            /\ pc' = "pre_probe"
       ELSE /\ ran' = ran
            /\ pc' = "test_h5"
    /\ tested' = [tested EXCEPT !.preprocess = IF npyRoot THEN "present" ELSE "absent"]
    /\ UNCHANGED <<caller, dir, rawN, malformed, npyRoot, npyDirs, npyFiles, arrays, h5,
                   tasks, partial, fs0, otherVars>>

test_h5 ==
    /\ pc = "test_h5"
    /\ IF KeyAbsent(h5)                                        \* line 204
       THEN /\ ran' = ran \cup {"formatting"}
            /\ pc' = "formatting"
       ELSE /\ ran' = ran
            /\ pc' = "done"
    /\ tested' = [tested EXCEPT !.formatting = IF h5 THEN "present" ELSE "absent"]
    /\ UNCHANGED <<caller, dir, rawN, malformed, npyRoot, npyDirs, npyFiles, arrays, h5,
                   tasks, partial, fs0, otherVars>>

\* the process is killed in the middle of __init__ or of a direct call
interrupt ==
    /\ ~AtRest
    /\ pc' = "idle"
    /\ partial' = Unfinished
    /\ UNCHANGED <<caller, dir, rawN, malformed, npyRoot, npyDirs, npyFiles, arrays, h5,
                   tasks, ran, tested, fs0, otherVars>>

(***************************************************************************)
(* ModelNet40Dataset.preprocess (lines 220-360)                            *)
(***************************************************************************)
\* preprocess() called on a constructed object
call_preprocess ==
    /\ pc = "done"
    /\ caller' = "direct"
    /\ pc' = "pre_probe"
    /\ tasks' = <<>>
    /\ UNCHANGED <<dir, rawN, malformed, npyRoot, npyDirs, npyFiles, arrays, h5,
                   ran, tested, partial, fs0, otherVars>>

\* lines 225-292: list the class folders, read and sample bed/train/bed_0001.off
pre_probe ==
    /\ pc = "pre_probe"
    /\ IF ProbeMesh \in rawFiles /\ ProbeMesh \notin malformed
       THEN pc' = "pre_list_train" /\ partial' = partial
       ELSE pc' = Raised /\ partial' = Unfinished
    /\ UNCHANGED <<caller, dir, rawN, malformed, npyRoot, npyDirs, npyFiles, arrays, h5,
                   tasks, ran, tested, fs0, otherVars>>

NewTask == [st |-> "pending", existed |-> FALSE, wrote |-> {}]

\* lines 320-330 and 346-356: per class folder, in sorted order, make the
\* output folder, then list the input folder (which raises when it is missing)
Reached(split) ==
    {c \in rawClasses : \A b \in rawClasses : b < c => rawFolderExists(b, split)}

pre_list(split, here, next) ==
    /\ pc = here
    /\ npyDirs' = npyDirs \cup {<<c, split>> : c \in Reached(split)}
    /\ npyRoot' = (npyRoot \/ Reached(split) # {})
    /\ IF \A c \in rawClasses : rawFolderExists(c, split)
       THEN /\ pc' = next
            /\ tasks' = [e \in DOMAIN tasks \cup
                               UNION {rawListing(c, split) : c \in rawClasses} |->
                           IF e \in DOMAIN tasks THEN tasks[e] ELSE NewTask]
            /\ partial' = partial
       ELSE /\ pc' = Raised
            /\ tasks' = tasks
            /\ partial' = IF caller = "init" /\ npyRoot'
                                 /\ ~NpyCompleteIn(npyDirs', npyFiles)
                            THEN "preprocess" ELSE "none"
    /\ UNCHANGED <<caller, dir, rawN, malformed, npyFiles, arrays, h5,
                   ran, tested, fs0, otherVars>>

pre_list_train == pre_list("train", "pre_list_train", "batch_train")
pre_list_test == pre_list("test", "pre_list_test", "batch_test")

InBatch == pc \in {"batch_train", "batch_test"}

\* process(), lines 295-297: the two tests that guard the conversion
task_begin(e) ==
    /\ InBatch
    /\ e \in DOMAIN tasks /\ tasks[e].st = "pending"
    /\ tasks' = [tasks EXCEPT ![e] =
                   IF Suffix(e.name) # dot_off THEN [@ EXCEPT !.st = "done"]
                   ELSE IF fname(e) \in DOMAIN npyFiles
                        THEN [@ EXCEPT !.st = "done", !.existed = TRUE]
                   ELSE [@ EXCEPT !.st = "reading"]]
    /\ UNCHANGED <<pc, caller, dir, rawN, malformed, npyRoot, npyDirs, npyFiles, arrays,
                   h5, ran, tested, partial, fs0, otherVars>>

\* lines 298-301: read_off and the sampler raise on a bad mesh; np.save opens
\* the output file
task_read(e) ==
    /\ InBatch
    /\ e \in DOMAIN tasks /\ tasks[e].st = "reading"
    /\ IF e \in malformed
       THEN /\ tasks' = [tasks EXCEPT ![e].st = "failed"]
            /\ npyFiles' = npyFiles
       ELSE /\ tasks' = [tasks EXCEPT ![e].st = "saving",
                                      ![e].wrote = @ \cup {fname(e)}]
            /\ npyFiles' = [f \in DOMAIN npyFiles \cup {fname(e)} |->
                              IF f = fname(e) THEN "corrupt" ELSE npyFiles[f]]
    /\ UNCHANGED <<pc, caller, dir, rawN, malformed, npyRoot, npyDirs, arrays,
                   h5, ran, tested, partial, fs0, otherVars>>

\* line 301: np.save has written the whole array
task_saved(e) ==
    /\ InBatch
    /\ e \in DOMAIN tasks /\ tasks[e].st = "saving"
    /\ tasks' = [tasks EXCEPT ![e].st = "done"]
    /\ npyFiles' = [npyFiles EXCEPT ![fname(e)] = "ok"]
    /\ UNCHANGED <<pc, caller, dir, rawN, malformed, npyRoot, npyDirs, arrays,
                   h5, ran, tested, partial, fs0, otherVars>>

\* lines 333-334 and 359-360: Parallel(...)(...) returns when every task has
Joinable == \A e \in DOMAIN tasks : tasks[e].st = "done"

batch_join ==
    /\ InBatch
    /\ Joinable
    /\ pc' = IF pc = "batch_train" THEN "pre_list_test"
             ELSE IF caller = "init" THEN "test_h5" ELSE "done"
    /\ UNCHANGED <<caller, dir, rawN, malformed, npyRoot, npyDirs, npyFiles, arrays, h5,
                   tasks, ran, tested, partial, fs0, otherVars>>

\* a task's exception is raised again in the parent; the workers are stopped
batch_abort ==
    /\ InBatch
    /\ \E e \in DOMAIN tasks : tasks[e].st = "failed"
    /\ pc' = Raised
    /\ partial' = Unfinished
    /\ UNCHANGED <<caller, dir, rawN, malformed, npyRoot, npyDirs, npyFiles, arrays, h5,
                   tasks, ran, tested, fs0, otherVars>>

(***************************************************************************)
(* ModelNet40Dataset.formatting (lines 362-432)                            *)
(***************************************************************************)
\* classes = {folder: i for i, folder in enumerate(sorted folders)}
class_num(c) == Cardinality({d \in npyClasses : d < c})

\* lines 393-398: the cloud and its label are appended together, or the load
\* raises and the bare except drops the file
load_step_label_first(acc, file, num) ==
    IF npyFiles[file] = "ok"
    THEN [cloud |-> Append(acc.cloud, file), label |-> Append(acc.label, num)]
    ELSE [cloud |-> acc.cloud, label |-> Append(acc.label, num)]
load_step(acc, file, num) ==
    IF npyFiles[file] = "ok"
    THEN [cloud |-> Append(acc.cloud, file), label |-> Append(acc.label, num)]
    ELSE acc

\* os.listdir(new_dir), in whatever order the file system gives
FolderOrders(c, split) ==
    {[i \in DOMAIN o |-> [file |-> o[i], num |-> class_num(c)]] :
        o \in Arrangements(npyListing(c, split), Cardinality(npyListing(c, split)))}

\* lines 388-391, 411-414: the class folders in sorted order, each listed
RECURSIVE VisitOrders(_, _)
VisitOrders(c, split) ==
    IF c > NClasses THEN {<<>>}
    ELSE IF c \notin npyClasses THEN VisitOrders(c + 1, split)
    ELSE {o \o rest : o \in FolderOrders(c, split), rest \in VisitOrders(c + 1, split)}

RECURSIVE LoadAll(_, _, _)
LoadAll(visit, i, acc) ==
    IF i > Len(visit) THEN acc
    ELSE IF EndsWith(visit[i].file.name, dot_npy)                        \* line 392
         THEN LoadAll(visit, i + 1, load_step(acc, visit[i].file, visit[i].num))
    ELSE LoadAll(visit, i + 1, acc)

FormatSplit(split) ==
    {LoadAll(visit, 1, [cloud |-> <<>>, label |-> <<>>]) : visit \in VisitOrders(1, split)}

\* os.listdir(new_dir) raises when a class folder has no such split folder
SplitFoldersPresent(split) == \A c \in npyClasses : <<c, split>> \in npyDirs

formatting ==
    /\ pc = "formatting"
    /\ IF ~SplitFoldersPresent("train")
       THEN /\ pc' = "failed"
            /\ arrays' = arrays
            /\ h5' = h5
            /\ partial' = "none"
       ELSE \E tr \in FormatSplit("train") :
              IF ~SplitFoldersPresent("test")
              THEN /\ pc' = "failed"
                   /\ arrays' = [arrays EXCEPT !.tr_cloud = tr.cloud,      \* lines 401-402
                                               !.tr_label = tr.label]
                   /\ h5' = h5
                   /\ partial' = "none"
              ELSE \E te \in FormatSplit("test") :
                     /\ pc' = "done"
                     /\ arrays' = [tr_cloud |-> tr.cloud, tr_label |-> tr.label,
                                   test_cloud |-> te.cloud, test_label |-> te.label]
                     /\ h5' = TRUE                                        \* lines 428-432
                     /\ partial' = partial
    /\ UNCHANGED <<caller, dir, rawN, malformed, npyRoot, npyDirs, npyFiles,
                   tasks, ran, tested, fs0, otherVars>>

(***************************************************************************)
(* ModelNet40Dataset: the specifications                                   *)
(***************************************************************************)
MNStart ==
    /\ pc = "idle" /\ caller = "none"
    /\ arrays = NoArrays
    /\ tasks = <<>> /\ ran = {} /\ tested = Untested /\ partial = "none"
    /\ fs0 = <<>>

\* at most one mesh of the archive is not a valid OFF file
MalformedChoices == {{}} \cup {{m} : m \in Meshes}

\* the output files the folders in dirs can hold
Outputs(dirs) == {fname(e) : e \in {m \in Meshes : <<m.cat, m.split>> \in dirs}}

AllNpyDirs == Classes \X Splits

\* any combination of the three keys: the storage directory with any part of
\* the archive in it, the intermediate folder absent, empty or complete, the
\* final archive absent or present
MNInitAnyKeys ==
    /\ malformed \in MalformedChoices
    /\ dir \in BOOLEAN
    /\ rawN \in IF dir THEN 0..Len(RawOrder) ELSE {0}
    /\ npyRoot \in IF dir THEN BOOLEAN ELSE {FALSE}
    /\ npyDirs \in IF npyRoot THEN {{}, AllNpyDirs} ELSE {{}}
    /\ npyFiles = [f \in Outputs(npyDirs) |-> "ok"]
    /\ h5 \in IF dir THEN BOOLEAN ELSE {FALSE}

\* any intermediate tree waiting to be formatted: the folders of any of the
\* classes, any of their files whole or unloadable
MNInitAnyNpy ==
    /\ malformed = {}
    /\ dir = TRUE
    /\ rawN = Len(RawOrder)
    /\ npyRoot = TRUE
    /\ \E K \in SUBSET Classes : npyDirs = K \X Splits
    /\ npyFiles \in [Outputs(npyDirs) -> {"ok", "corrupt"}]
    /\ h5 = FALSE

MNInitAny == MNStart /\ (MNInitAnyKeys \/ MNInitAnyNpy)

\* only what the archive provider and this class put under data_dir
MNInitFresh ==
    /\ MNStart
    /\ malformed \in MalformedChoices
    /\ dir \in BOOLEAN
    /\ rawN \in IF dir THEN 0..Len(RawOrder) ELSE {0}
    /\ npyRoot = FALSE /\ npyDirs = {} /\ npyFiles = <<>>
    /\ h5 = FALSE

MNNext ==
    \/ construct
    \/ download_extract
    \/ download_return
    \/ download_fail
    \/ test_npy
    \/ test_h5
    \/ interrupt
    \/ call_preprocess
    \/ pre_probe
    \/ pre_list_train
    \/ pre_list_test
    \/ \E e \in Range(RawOrder) : task_begin(e)
    \/ \E e \in Range(RawOrder) : task_read(e)
    \/ \E e \in Range(RawOrder) : task_saved(e)
    \/ batch_join
    \/ batch_abort
    \/ formatting

InitMN == MNInitAny /\ ECGIdle /\ DetIdle /\ MutIdle

SpecMN == InitMN /\ [][MNNext]_vars

InitMNFresh == MNInitFresh /\ ECGIdle /\ DetIdle /\ MutIdle

SpecMNFresh == InitMNFresh /\ [][MNNext]_vars

(***************************************************************************)
(* Claims about ECGDataset (checked under SpecECG)                         *)
(***************************************************************************)
ECGReturned == ecg_call.op = "generate"

Count(s, v) == Cardinality({i \in DOMAIN s : s[i] = v})

\* what C1 promises of a call: 2*size samples, size ones and size zeros, every
\* sample labelled 1 a base sample with label concept_id+1, every sample
\* labelled 0 a base sample with another label
BalancedConceptSet(concept_id, size) ==
    /\ ecg_res.status = "ok"
    /\ Len(ecg_res.X) = 2 * size
    /\ Len(ecg_res.C) = 2 * size
    /\ Count(ecg_res.C, 1) = size
    /\ Count(ecg_res.C, 0) = size
    /\ \A i \in DOMAIN ecg_res.X :
         /\ ecg_res.X[i] \in DOMAIN y
         /\ ecg_res.C[i] = 1 => y[ecg_res.X[i]] = concept_id + 1
         /\ ecg_res.C[i] = 0 => y[ecg_res.X[i]] # concept_id + 1

BothPartitionsSuffice(concept_id, size) ==
    /\ Cardinality(positive_idx(concept_id)) >= size
    /\ Cardinality(negative_idx(concept_id)) >= size

\* C1 as stated: with binarization off, for every concept_id and every size that
\* both partitions can supply, the call returns a balanced, correctly labelled
\* concept set of 2*size samples.
C1_AsStated ==
    (ECGReturned /\ ~binarize_label
       /\ BothPartitionsSuffice(ecg_call.concept_id, ecg_call.size))
    => BalancedConceptSet(ecg_call.concept_id, ecg_call.size)

\* C1 amended: the same for every size >= 1 (a size of 0 is refused by the
\* batch sampler of the loader and the call raises ValueError).
C1_BalancedConceptSet ==
    (ECGReturned /\ ~binarize_label /\ ecg_call.size >= 1
       /\ BothPartitionsSuffice(ecg_call.concept_id, ecg_call.size))
    => BalancedConceptSet(ecg_call.concept_id, ecg_call.size)

C1_Witness ==
    /\ ECGReturned /\ ~binarize_label /\ ecg_call.size = 2
    /\ BothPartitionsSuffice(ecg_call.concept_id, 2)
    /\ ecg_res.status = "ok"
    /\ ecg_res.C = <<0, 1, 1, 0>>

\* C2: the call fails, and returns no pair, whenever the matching or the
\* non-matching partition has fewer than size members.
C2_FailsWhenPartitionShort ==
    (ECGReturned /\ ~BothPartitionsSuffice(ecg_call.concept_id, ecg_call.size))
    => ecg_res.status # "ok"

\* C3: with binarization on every call fails with the precondition error and
\* returns nothing; with binarization off the precondition never fails.
C3_Precondition ==
    ECGReturned =>
       /\ binarize_label => (ecg_res.status = "AssertionError"
                               /\ ecg_res.X = <<>> /\ ecg_res.C = <<>>)
       /\ ~binarize_label => ecg_res.status # "AssertionError"

C3_Witness ==
    /\ ECGReturned /\ binarize_label
    /\ ecg_call.size = 1
    /\ BothPartitionsSuffice(ecg_call.concept_id, 1)
    /\ ecg_res.status = "AssertionError"

(***************************************************************************)
(* Claims about the concept detectors (checked under SpecDetect)           *)
(***************************************************************************)
\* the valence of the bond between u and v, whichever way it is stored
valence_of(molecule, u, v) ==
    IF <<u, v>> \in DOMAIN molecule.bonds THEN molecule.bonds[<<u, v>>]
    ELSE molecule.bonds[<<v, u>>]

\* some single nitrogen has an oxygen neighbour on a valence-1 bond and an
\* oxygen neighbour on a valence-2 bond
NitroPattern(molecule) ==
    \E n \in nodes(molecule) :
       /\ molecule.atoms[n] = "N"
       /\ \E o1, o2 \in neighbors(molecule, n) :
            /\ molecule.atoms[o1] = "O" /\ valence_of(molecule, n, o1) = 1
            /\ molecule.atoms[o2] = "O" /\ valence_of(molecule, n, o2) = 2

\* C5: for every molecule graph is_nitro_type returns true exactly when some
\* single nitrogen carries both a single-bonded and a double-bonded oxygen.
C5_NitroIff ==
    det_call.op = "is_nitro_type"
    => det_res = (IF NitroPattern(mol) THEN "True" ELSE "False")

\* the same equivalence on the graphs whose valence map holds both orderings
\* of every bond (no lookup can fail there)
NitroIffOnBothOrderings ==
    (det_call.op = "is_nitro_type" /\ mol.directed)
    => det_res = (IF NitroPattern(mol) THEN "True" ELSE "False")

\* C6: on an undirected graph, whose valence map holds each edge under one
\* ordering only, each bond-sensitive detector completes without a lookup
\* failure and answers as it does when both orderings are at hand.
C6_HandlesBothOrderings ==
    (det_call.op \in {"is_nitroso", "is_azo_type", "is_nitro_type"} /\ ~mol.directed)
    => /\ det_res \in {"True", "False"}
       /\ det_res = (CASE det_call.op = "is_nitroso" ->
                            is_nitroso([mol EXCEPT !.directed = TRUE])
                       [] det_call.op = "is_azo_type" ->
                            is_azo_type([mol EXCEPT !.directed = TRUE])
                       [] det_call.op = "is_nitro_type" ->
                            is_nitro_type([mol EXCEPT !.directed = TRUE]))

(***************************************************************************)
(* Claims about MutagenicityDataset.generate_concept_dataset (SpecMut)     *)
(***************************************************************************)
Satisfying(concept_id) ==
    {i \in DOMAIN dataset :
        concept_detector(concept_names[concept_id + 1], to_molecule(dataset[i])) = "True"}

NonSatisfying(concept_id) == DOMAIN dataset \ Satisfying(concept_id)

\* position i is the k-th member of S in partition order
IsKth(S, i, k) == i \in S /\ Cardinality({j \in S : j < i}) = k - 1

Stages == {"download", "preprocess", "formatting"}

AllKeysPresent(fs) == fs.dir /\ fs.npyRoot /\ fs.h5

\* C7: the stages are tested in the order download, preprocess, formatting and
\* each runs exactly when its key was absent at its test; a construction that
\* completes leaves the three keys present; a construction that finds the three
\* keys present runs no stage and changes no file.
C7_KeyedPipeline ==
    caller = "init" =>
       /\ \A stage \in Stages : stage \in ran <=> tested[stage] = "absent"
       /\ tested.formatting # "untested" => tested.preprocess # "untested"
       /\ tested.preprocess # "untested" => tested.download # "untested"
       /\ pc = "done" => AllKeysPresent(FS)
       /\ AllKeysPresent(fs0) => (ran = {} /\ FS = fs0)

\* a construction over a complete pipeline output has run to its end
C7_Witness ==
    /\ caller = "init" /\ pc = "done"
    /\ AllKeysPresent(fs0)
    /\ tested = [download |-> "present", preprocess |-> "present", formatting |-> "present"]
    /\ arrays # NoArrays

\* C8: when the previous construction was cut short in a stage that had made
\* its key but not finished, the next construction skips that stage, leaves
\* its partial output as it is, and runs the following stage against it.
ReachedStage(stage) ==
    CASE stage = "preprocess" -> pc \notin {"download", "test_npy"}
      [] stage = "formatting" -> pc \notin {"download", "test_npy", "pre_probe",
                                            "pre_list_train", "batch_train",
                                            "pre_list_test", "batch_test", "test_h5"}

InOrAfterConstruction == caller = "init" /\ pc \notin {"idle", "failed"}

C8_SkippedNotResumed ==
    InOrAfterConstruction =>
       /\ partial = "download" =>
            /\ "download" \notin ran
            /\ rawN = fs0.rawN /\ rawN < Len(RawOrder)
            /\ ReachedStage("preprocess") => "preprocess" \in ran
       /\ partial = "preprocess" =>
            /\ "preprocess" \notin ran
            /\ npyDirs = fs0.npyDirs /\ npyFiles = fs0.npyFiles
            /\ ~NpyCompleteIn(npyDirs, npyFiles)
            /\ ReachedStage("formatting") => "formatting" \in ran

\* formatting is entered over an intermediate tree whose conversion was cut
\* short with a file half written
C8_Witness ==
    /\ InOrAfterConstruction
    /\ partial = "preprocess"
    /\ pc = "formatting"
    /\ \E f \in DOMAIN npyFiles : npyFiles[f] = "corrupt"
    /\ AllNpyDirs \subseteq npyDirs

C8_WitnessDownload ==
    /\ InOrAfterConstruction
    /\ partial = "download"
    /\ pc = "pre_list_train"

\* C9, in every state of the fan-out: a task writes at most its own output
\* file; no two tasks write the same path; a task whose output existed, or
\* whose input is no .off file, writes nothing; no task of the test batch has
\* started before every task of the train batch has finished.
C9_TasksIndependent ==
    /\ \A e \in DOMAIN tasks :
         /\ tasks[e].wrote \subseteq {fname(e)}
         /\ tasks[e].existed => tasks[e].wrote = {}
         /\ Suffix(e.name) # dot_off => tasks[e].wrote = {}
    /\ \A e1, e2 \in DOMAIN tasks : e1 # e2 => tasks[e1].wrote \cap tasks[e2].wrote = {}
    /\ \A e1, e2 \in DOMAIN tasks :
         (e1.split = "train" /\ e2.split = "test" /\ tasks[e2].st # "pending")
         => tasks[e1].st = "done"

\* C9, in every step: a task that fails, and the abort that follows, leave
\* every output file as it was.
C9_FailureLeavesOutputs ==
    (\/ \E e \in DOMAIN tasks \cap DOMAIN tasks' :
            tasks[e].st # "failed" /\ tasks'[e].st = "failed"
     \/ (InBatch /\ pc' = Raised))
    => npyFiles' = npyFiles

C9_FanOut == [](C9_TasksIndependent) /\ [][C9_FailureLeavesOutputs]_vars

\* one mesh of the batch failed after another was converted; a third task
\* found its output in place and wrote nothing; the text file was passed over
C9_Witness ==
    /\ InBatch
    /\ \E e1, e2 \in DOMAIN tasks :
         /\ tasks[e1].st = "failed"
         /\ tasks[e2].st = "done" /\ tasks[e2].wrote = {fname(e2)}
         /\ e1.split = e2.split
         /\ npyFiles[fname(e2)] = "ok"
    /\ \E e \in DOMAIN tasks : tasks[e].existed
    /\ \E e \in DOMAIN tasks : e.name = a_txt /\ tasks[e].st = "done"

\* C10: after a formatting that returned, for each split the cloud and label
\* arrays have one length, the i-th label is the rank of the folder of the
\* i-th cloud, every loadable .npy file of the split is in once and no
\* unloadable one is; and formatting raises only for a missing split folder.
SplitFormatted(split, cloud, label) ==
    /\ Len(cloud) = Len(label)
    /\ \A i \in DOMAIN cloud :
         /\ cloud[i].split = split
         /\ label[i] = class_num(cloud[i].cat)
         /\ npyFiles[cloud[i]] = "ok"
    /\ \A f \in DOMAIN npyFiles :
         (f.split = split /\ npyFiles[f] = "ok")
         => Cardinality({i \in DOMAIN cloud : cloud[i] = f}) = 1

C10_CorruptFilesDropped ==
    (caller = "init" /\ "formatting" \in ran) =>
       /\ pc = "done" =>
            /\ SplitFormatted("train", arrays.tr_cloud, arrays.tr_label)
            /\ SplitFormatted("test", arrays.test_cloud, arrays.test_label)
       /\ pc = "failed" => \E c \in npyClasses, split \in Splits : <<c, split>> \notin npyDirs

\* two classes formatted, an unloadable file left out of each split
C10_Witness ==
    /\ caller = "init" /\ "formatting" \in ran /\ pc = "done"
    /\ \E f \in DOMAIN npyFiles : f.split = "train" /\ npyFiles[f] = "corrupt"
    /\ \E f \in DOMAIN npyFiles : f.split = "test" /\ npyFiles[f] = "corrupt"
    /\ Len(arrays.tr_cloud) = 2
    /\ arrays.tr_label = <<0, 1>>
    /\ Len(arrays.test_cloud) = 1

====
